---- MODULE Spec2Model ----
(***************************************************************************)
(* A model of the EPsolar Tracer register access layer                     *)
(* (collectors/machinon/epsolar_tracer): the register codec of             *)
(* registers.py, the dispatch of client.py and the collection of           *)
(* collector.py.                                                           *)
(*                                                                         *)
(* Python values are tagged records (field t).  A Python int is kept in    *)
(* two's complement as NLimbs 16-bit limbs, least significant first, plus  *)
(* its sign (every limb above the kept ones is 0xFFFF when neg, else 0):   *)
(* the 48-bit clock value does not fit a 32-bit integer of TLC, and         *)
(* Python's >>, & and | act on exactly this representation.                *)
(***************************************************************************)
EXTENDS Integers, Sequences, FiniteSets, TLC

\* ---------------------------------------------------------------- bounds
\* The longest word or bit sequence a transport response carries.
MaxWords == 3

\* The scheduling loop of main.py, in passes of the loop (one pass a second):
\* the passes in a minute, in the lifetime of a token and in a day, and the
\* callbacks the MQTT network thread runs.
MinutePasses == 2

TokenPasses == 3

DayPasses == 4

MaxCallbacks == 2

\* ------------------------------------------------------ program constants
WordBits == 16
WordMask == 65535
SignBit == 32768
RtcEpoch == 2000

WordBase == WordMask + 1
NLimbs == MaxWords + 1

\* ------------------------------------------------------------ Python ints
NoneV == [t |-> "none"]

BoolV(b) == [t |-> "bool", b |-> b]

RECURSIVE ShiftRight(_, _)
\* n >> (i * 16) on a machine-sized integer (floor division, as Python's >>)
ShiftRight(n, i) == IF i = 0 THEN n ELSE ShiftRight(n \div WordBase, i - 1)

\* the Python int n, for a machine-sized n
IntOf(n) ==
  [t |-> "int",
   w |-> [i \in 1..NLimbs |-> ShiftRight(n, i - 1) % WordBase],
   neg |-> n < 0]

Ext(v) == IF v.neg THEN WordMask ELSE 0

\* (v >> (i * 16)) & 0xFFFF
Limb(v, i) == IF i + 1 <= Len(v.w) THEN v.w[i + 1] ELSE Ext(v)

\* v fits a machine-sized integer (32 bits, signed)
Fits(v) ==
  /\ \A i \in 3..Len(v.w) : v.w[i] = Ext(v)
  /\ (v.w[2] >= SignBit) <=> v.neg

\* the machine-sized integer a fitting Python int stands for
ToInt(v) == (v.w[2] - (IF v.neg THEN WordBase ELSE 0)) * WordBase + v.w[1]

\* raw_value = 0; raw_value |= registers[i] << (i * 16), for every i
OrWords(ws) ==
  [t |-> "int",
   w |-> [i \in 1..NLimbs |-> IF i <= Len(ws) THEN ws[i] ELSE 0],
   neg |-> FALSE]

\* v - (1 << n * 16), for v >= 0 (the borrow runs up from limb n)
SubShift(v, n) ==
  LET above == {j \in (n + 1)..Len(v.w) : v.w[j] # 0}
  IN IF above = {}
       THEN [t |-> "int",
             w |-> [i \in 1..Len(v.w) |-> IF i > n THEN WordMask ELSE v.w[i]],
             neg |-> TRUE]
       ELSE LET j == CHOOSE x \in above : \A y \in above : x <= y
            IN [t |-> "int",
                w |-> [i \in 1..Len(v.w) |->
                         IF i = j THEN v.w[i] - 1
                         ELSE IF i > n /\ i < j THEN WordMask
                         ELSE v.w[i]],
                neg |-> v.neg]

\* ----------------------------------------------------------- RegisterType
\* the same with the input range closed at 0x9000
RegisterTypeBadBoundary(address) ==
  IF 0 <= address /\ address < 4096 THEN "coil"
  ELSE IF 4096 <= address /\ address < 12288 THEN "discrete"
  ELSE IF 12288 <= address /\ address <= 36864 THEN "input"
  ELSE IF 36864 <= address /\ address < 65536 THEN "holding"
  ELSE "unknown"

\* the classification Register.__init__ derives from the address
RegisterTypeOf(address) ==
  IF 0 <= address /\ address < 4096 THEN "coil"
  ELSE IF 4096 <= address /\ address < 12288 THEN "discrete"
  ELSE IF 12288 <= address /\ address < 36864 THEN "input"
  ELSE IF 36864 <= address /\ address < 65536 THEN "holding"
  ELSE "unknown"

\* Register.__init__ (cls is the Python class: Register, RTC, Coil or
\* StatusRegister)
Register(cls, address, multiplier, size) ==
  [cls |-> cls, address |-> address, size |-> size,
   multiplier |-> multiplier, type |-> RegisterTypeOf(address)]

\* RTC.__init__
RTC(address) == Register("RTC", address, 1, 3)

\* ---------------------------------------------------------- RegisterValue
\* float(raw_value) / multiplier, kept as the expression it is
FloatDiv(raw, multiplier) == [t |-> "float", raw |-> raw, div |-> multiplier]

\* the same with the scaling left out
RegisterValueKeepsRaw(register, raw_value) ==
  [register |-> register, raw_value |-> raw_value, value |-> raw_value]

\* RegisterValue.__init__
RegisterValue(register, raw_value) ==
  [register |-> register,
   raw_value |-> raw_value,
   value |-> IF register.multiplier # 1 /\ raw_value # NoneV
               THEN FloatDiv(raw_value, register.multiplier)
               ELSE raw_value]

\* ------------------------------------------------------- float arithmetic
\* float(raw) / div and value * multiplier are IEEE-754 double operations
\* (53-bit significand, round to nearest even).  With q the double nearest
\* num / den, q = M / 2^e with 2^52 <= M < 2^53 and M * den = num * 2^e + d,
\* so q * m = num * m / den + d * m / (den * 2^e): when den divides num * m
\* the product is the integer R = num * m / den moved by d * m / (den * 2^e),
\* and rounding it to a double gives R again exactly when that move is at
\* most half the spacing of the doubles just below R.
RECURSIVE Log2Floor(_)
Log2Floor(x) == IF x <= 1 THEN 0 ELSE 1 + Log2Floor(x \div 2)

RECURSIVE Pow2(_)
Pow2(k) == IF k = 0 THEN 1 ELSE 2 * Pow2(k - 1)

RECURSIVE Pow2Mod(_, _)
Pow2Mod(e, den) == IF e = 0 THEN 1 % den ELSE (2 * Pow2Mod(e - 1, den)) % den

\* the exponent j with 1 <= (num / den) * 2^j < 2
NormShift(num, den) ==
  IF num >= den THEN 0 - Log2Floor(num \div den)
  ELSE Log2Floor((den - 1) \div num) + 1

\* d above: the error of the division, in units of 2^-e / den
DivError(num, den) ==
  LET e == 52 + NormShift(num, den)
      rem == ((num % den) * Pow2Mod(e, den)) % den
  IN IF rem = 0 THEN 0 ELSE IF 2 * rem > den THEN den - rem ELSE 0 - rem

\* the double nearest to R + d * m / (den * 2^e) is R
RoundsBackTo(R, d, num, den, m) ==
  LET k == Log2Floor(R)
      s == NormShift(num, den) + k - 1 - (IF R = Pow2(k) THEN 1 ELSE 0)
  IN IF s >= 20 THEN TRUE
     ELSE IF s >= 0 THEN (0 - d) * m <= den * Pow2(s)
     ELSE (0 - d) * m * Pow2(0 - s) <= den

\* round((float(num) / den) * m) for num > 0
RoundNearestPos(num, den, m) ==
  IF den = m THEN num
  ELSE LET A == num * m
           fl == A \div den
           r2 == 2 * (A % den)
       IN IF r2 > den \/ (r2 = den /\ fl % 2 = 1) THEN fl + 1 ELSE fl

\* int((float(num) / den) * m) for num > 0: truncation toward zero
TruncPos(num, den, m) ==
  LET exact == IF den = m THEN TRUE ELSE (num * m) % den = 0
      R == IF den = m THEN num ELSE (num * m) \div den
      d == DivError(num, den)
  IN IF ~exact THEN R
     ELSE IF d >= 0 THEN R
     ELSE IF RoundsBackTo(R, d, num, den, m) THEN R
     ELSE R - 1

\* round((float(num) / den) * m), any sign: to nearest, ties to even
RoundFloatMul(num, den, m) ==
  IF num = 0 THEN 0
  ELSE IF num > 0 THEN RoundNearestPos(num, den, m)
  ELSE 0 - RoundNearestPos(0 - num, den, m)

\* int((float(num) / den) * m), any sign
TruncFloatMul(num, den, m) ==
  IF num = 0 THEN 0
  ELSE IF num > 0 THEN TruncPos(num, den, m)
  ELSE 0 - TruncPos(0 - num, den, m)

\* --------------------------------------------------------------- outcomes
\* what a call gives back: a return value, or the exception it raised
Ok(ret) == [err |-> "none", ret |-> ret]

Raise(e) == [err |-> e, ret |-> NoneV]

\* ----------------------------------------------------------------- encode
\* round(value * multiplier)
IntOfProductRounded(value, multiplier) ==
  IF value.t = "int"
    THEN Ok(IF multiplier = 1 THEN value ELSE IntOf(ToInt(value) * multiplier))
  ELSE IF value.t = "bool"
    THEN Ok(IntOf((IF value.b THEN 1 ELSE 0) * multiplier))
  ELSE IF value.t = "float"
    THEN Ok(IntOf(RoundFloatMul(ToInt(value.raw), value.div, multiplier)))
  ELSE Raise("TypeError")

\* int(value * self.multiplier)
IntOfProduct(value, multiplier) ==
  IF value.t = "int"
    THEN Ok(IF multiplier = 1 THEN value ELSE IntOf(ToInt(value) * multiplier))
  ELSE IF value.t = "bool"
    THEN Ok(IntOf((IF value.b THEN 1 ELSE 0) * multiplier))
  ELSE IF value.t = "float"
    THEN Ok(IntOf(TruncFloatMul(ToInt(value.raw), value.div, multiplier)))
  ELSE Raise("TypeError")

\* the same with the most significant word first
SplitWordsHighFirst(raw_value, size) ==
  [i \in 1..size |-> Limb(raw_value, size - i)]

\* values.append((raw_value >> (i * 16)) & 0xFFFF) for i in range(size)
SplitWords(raw_value, size) == [i \in 1..size |-> Limb(raw_value, i - 1)]

\* Register.encode
RegisterEncode(register, value) ==
  LET raw_value == IntOfProduct(value, register.multiplier)
  IN IF raw_value.err # "none" THEN raw_value
     ELSE Ok(SplitWords(raw_value.ret, register.size))

RECURSIVE BitOr(_, _, _)
\* a | b on the low n bits
BitOr(a, b, n) ==
  IF n = 0 THEN 0
  ELSE (IF a % 2 = 1 \/ b % 2 = 1 THEN 1 ELSE 0)
       + 2 * BitOr(a \div 2, b \div 2, n - 1)

\* a | b
IntOr(a, b) ==
  [t |-> "int",
   w |-> [i \in 1..NLimbs |-> BitOr(a.w[i], b.w[i], WordBits)],
   neg |-> a.neg \/ b.neg]

\* field << (8 * k), for a machine-sized field
ShiftLeftBytes(field, k) ==
  LET v == IntOf(IF k % 2 = 1 THEN field * 256 ELSE field)
      s == k \div 2
  IN [t |-> "int",
      w |-> [i \in 1..NLimbs |-> IF i <= s THEN 0 ELSE v.w[i - s]],
      neg |-> v.neg]

\* the same with the offsets of month and day swapped
PackClockSwapped(value) ==
  LET r0 == IntOf(0)
      r1 == IntOr(r0, ShiftLeftBytes(value.year - RtcEpoch, 5))
      r2 == IntOr(r1, ShiftLeftBytes(value.month, 3))
      r3 == IntOr(r2, ShiftLeftBytes(value.day, 4))
      r4 == IntOr(r3, ShiftLeftBytes(value.hour, 2))
      r5 == IntOr(r4, ShiftLeftBytes(value.minute, 1))
  IN IntOr(r5, IntOf(value.second))

\* the packing of RTC.encode: register_value |= field << offset, six times
PackClock(value) ==
  LET r0 == IntOf(0)
      r1 == IntOr(r0, ShiftLeftBytes(value.year - RtcEpoch, 5))
      r2 == IntOr(r1, ShiftLeftBytes(value.month, 4))
      r3 == IntOr(r2, ShiftLeftBytes(value.day, 3))
      r4 == IntOr(r3, ShiftLeftBytes(value.hour, 2))
      r5 == IntOr(r4, ShiftLeftBytes(value.minute, 1))
  IN IntOr(r5, IntOf(value.second))

\* the same with a value that is no timestamp refused
RTCEncodeStrict(register, value) ==
  IF value.t = "datetime" THEN RegisterEncode(register, PackClock(value))
  ELSE Raise("TypeError")

\* RTC.encode
RTCEncode(register, value) ==
  LET register_value == IF value.t = "datetime" THEN PackClock(value) ELSE value
  IN RegisterEncode(register, register_value)

\* register.encode(value), by the class of the register
Encode(register, value) ==
  IF register.cls = "RTC" THEN RTCEncode(register, value)
  ELSE RegisterEncode(register, value)

\* ----------------------------------------------------------------- decode
\* datetime.datetime(year, month, day, hour, minute, second) accepts
IsLeap(year) == year % 4 = 0 /\ (year % 100 # 0 \/ year % 400 = 0)

DaysInMonth(year, month) ==
  IF month = 2 THEN (IF IsLeap(year) THEN 29 ELSE 28)
  ELSE IF month \in {4, 6, 9, 11} THEN 30 ELSE 31

ValidDateTime(year, month, day, hour, minute, second) ==
  /\ 1 <= year /\ year <= 9999
  /\ 1 <= month /\ month <= 12
  /\ 1 <= day /\ day <= DaysInMonth(year, month)
  /\ 0 <= hour /\ hour <= 23
  /\ 0 <= minute /\ minute <= 59
  /\ 0 <= second /\ second <= 59

DateTime(year, month, day, hour, minute, second) ==
  [t |-> "datetime", year |-> year, month |-> month, day |-> day,
   hour |-> hour, minute |-> minute, second |-> second]

\* (value & (0xFF << 8 * k)) >> (8 * k)
ByteOf(value, k) ==
  (IF k % 2 = 1 THEN Limb(value, k \div 2) \div 256 ELSE Limb(value, k \div 2)) % 256

\* response.registers[-1] & 0x8000 == 0x8000
HighBitSet(word) == (word \div SignBit) % 2 = 1

\* the same with the sign extension over the declared word count
RegisterDecodeDeclaredWidth(register, response) ==
  IF response.kind # "registers" THEN Ok(RegisterValue(register, NoneV))
  ELSE IF Len(response.data) = 0 THEN Raise("IndexError")
  ELSE LET n == Len(response.data)
           composed == OrWords(response.data)
           raw_value == IF HighBitSet(response.data[n])
                          THEN SubShift(composed, register.size)
                          ELSE composed
       IN Ok(RegisterValue(register, raw_value))

\* Register.decode
RegisterDecode(register, response) ==
  IF response.kind # "registers" THEN Ok(RegisterValue(register, NoneV))
  ELSE IF Len(response.data) = 0 THEN Raise("IndexError")
  ELSE LET n == Len(response.data)
           composed == OrWords(response.data)
           raw_value == IF HighBitSet(response.data[n])
                          THEN SubShift(composed, n)
                          ELSE composed
       IN Ok(RegisterValue(register, raw_value))

\* RTC.decode
RTCDecode(register, response) ==
  LET register_value == RegisterDecode(register, response)
  IN IF register_value.err # "none" THEN register_value
     ELSE IF register_value.ret.value = NoneV THEN register_value
     ELSE LET value == register_value.ret.value
              year == ByteOf(value, 5) + RtcEpoch
              month == ByteOf(value, 4)
              day == ByteOf(value, 3)
              hour == ByteOf(value, 2)
              minute == ByteOf(value, 1)
              second == ByteOf(value, 0)
          IN IF ValidDateTime(year, month, day, hour, minute, second)
               THEN Ok([register_value.ret EXCEPT
                          !.value = DateTime(year, month, day, hour, minute, second)])
               ELSE Raise("ValueError")

\* Coil.decode
CoilDecode(register, response) ==
  IF response.kind # "bits" THEN Ok(RegisterValue(register, NoneV))
  ELSE IF Len(response.data) = 0 THEN Raise("IndexError")
  ELSE Ok(RegisterValue(register, BoolV(response.data[1])))

\* register.decode(response), by the class of the register
Decode(register, response) ==
  IF register.cls = "RTC" THEN RTCDecode(register, response)
  ELSE IF register.cls = "Coil" THEN CoilDecode(register, response)
  ELSE RegisterDecode(register, response)


\* the RegisterValue object register.decode(response) constructs (none
\* where it raises before it constructs one), as the sequence of the states
\* the object goes through: as RegisterValue.__init__ leaves it, and then as
\* each later assignment to one of its attributes leaves it (RTC.decode
\* assigns register_value.value)
ValueStates(register, response) ==
  {IF register.cls = "RTC" /\ constructed.ret.value # NoneV /\ returned.err = "none"
     THEN <<constructed.ret, returned.ret>>
     ELSE <<constructed.ret>> :
     constructed \in {built \in {IF register.cls = "Coil"
                                   THEN CoilDecode(register, response)
                                   ELSE RegisterDecode(register, response)} :
                        built.err = "none"},
     returned \in {Decode(register, response)}}

\* ----------------------------------------------------------------- client
\* the transport primitive self._read_helpers holds for a classification
\* ("" where the defaultdict's factory, unsupported_register_type, raises)
ReadHelper(type) ==
  IF type = "coil" THEN "read_coils"
  ELSE IF type = "discrete" THEN "read_discrete_inputs"
  ELSE IF type = "input" THEN "read_input_registers"
  ELSE IF type = "holding" THEN "read_holding_registers"
  ELSE ""

\* the same with write_registers also held for input registers
WriteHelperAllowsInput(type) ==
  IF type = "coil" THEN "write_coils"
  ELSE IF type \in {"holding", "input"} THEN "write_registers"
  ELSE ""

\* the transport primitive self._write_helpers holds for a classification
WriteHelper(type) ==
  IF type = "coil" THEN "write_coils"
  ELSE IF type = "holding" THEN "write_registers"
  ELSE ""

\* one transport call, as the transport sees it
TransportCall(fn, address, arg) ==
  [ev |-> "call", fn |-> fn, address |-> address, arg |-> arg]

\* one logger.info line
LogInfo(msg, arg) == [ev |-> "log", msg |-> msg, arg |-> arg]

\* what an operation did: its outcome, the transport calls and log lines it
\* made, in order, and the transport replies it consumed
Done(out, trace, replies) == [out |-> out, trace |-> trace, replies |-> replies]

\* the same with a call that raised issued once more
ReadRegisterRetrying(register, reply) ==
  LET helper == ReadHelper(register.type)
  IN IF helper = "" THEN Done(Raise("Unsupported"), <<>>, <<>>)
     ELSE LET issued == <<TransportCall(helper, register.address, register.size)>>
          IN IF reply.kind = "raise"
               THEN Done(Raise("TransportError"), issued \o issued, <<reply, reply>>)
               ELSE Done(Decode(register, reply), issued, <<reply>>)

\* EpsolarTracerClient.read_register; reply is what the transport does
ReadRegister(register, reply) ==
  LET helper == ReadHelper(register.type)
  IN IF helper = "" THEN Done(Raise("Unsupported"), <<>>, <<>>)
     ELSE LET issued == <<TransportCall(helper, register.address, register.size)>>
          IN IF reply.kind = "raise"
               THEN Done(Raise("TransportError"), issued, <<reply>>)
               ELSE Done(Decode(register, reply), issued, <<reply>>)

\* the same with one write call for each word
WriteRegisterWordByWord(register, value, reply) ==
  LET values == Encode(register, value)
      helper == WriteHelper(register.type)
  IN IF values.err # "none" THEN Done(values, <<>>, <<>>)
     ELSE IF helper = "" THEN Done(Raise("Unsupported"), <<>>, <<>>)
     ELSE LET issued == [i \in 1..Len(values.ret) |->
                           TransportCall(helper, register.address + i - 1,
                                         <<values.ret[i]>>)]
              used == [i \in 1..Len(values.ret) |-> reply]
          IN IF reply.kind = "raise"
               THEN Done(Raise("TransportError"), issued, used)
               ELSE Done(Ok(NoneV), issued, used)

\* EpsolarTracerClient.write_register
WriteRegister(register, value, reply) ==
  LET values == Encode(register, value)
      helper == WriteHelper(register.type)
  IN IF values.err # "none" THEN Done(values, <<>>, <<>>)
     ELSE IF helper = "" THEN Done(Raise("Unsupported"), <<>>, <<>>)
     ELSE LET issued == <<TransportCall(helper, register.address, values.ret)>>
          IN IF reply.kind = "raise"
               THEN Done(Raise("TransportError"), issued, <<reply>>)
               ELSE Done(Ok(NoneV), issued, <<reply>>)

\* SettingParameter.Clock
Clock == RTC(36883)

\* the same with the write issued before the read's error is looked at
SyncRtcIgnoringReadError(now, readReply, writeReply) ==
  LET start == <<LogInfo("Syncing RTC", NoneV)>>
      rd == ReadRegister(Clock, readReply)
      wr == WriteRegister(Clock, now, writeReply)
      upto == start \o rd.trace \o wr.trace
      both == rd.replies \o wr.replies
  IN IF wr.out.err # "none" THEN Done(wr.out, upto, both)
     ELSE IF rd.out.err # "none" THEN Done(rd.out, upto, both)
     ELSE IF rd.out.ret.value = NoneV THEN Done(Raise("AttributeError"), upto, both)
     ELSE Done(Ok(NoneV),
               upto \o <<LogInfo("Device time was", rd.out.ret.value),
                         LogInfo("System time now", now)>>,
               both)

\* EpsolarTracerClient.sync_rtc; now is datetime.datetime.now()
SyncRtc(now, readReply, writeReply) ==
  LET start == <<LogInfo("Syncing RTC", NoneV)>>
      rd == ReadRegister(Clock, readReply)
      wr == WriteRegister(Clock, now, writeReply)
      upto == start \o rd.trace \o wr.trace
      both == rd.replies \o wr.replies
  IN IF rd.out.err # "none" THEN Done(rd.out, start \o rd.trace, rd.replies)
     ELSE IF wr.out.err # "none" THEN Done(wr.out, upto, both)
     ELSE IF rd.out.ret.value = NoneV THEN Done(Raise("AttributeError"), upto, both)
     ELSE Done(Ok(NoneV),
               upto \o <<LogInfo("Device time was", rd.out.ret.value),
                         LogInfo("System time now", now)>>,
               both)


\* -------------------------------------------------------------- collector
\* the catalog entries the collection reads (RealtimeData,
\* StatisticalParameter, RealtimeStatus), in the order it reads them
PvArrayInputVoltage == Register("Register", 12544, 100, 1)

PvArrayInputCurrent == Register("Register", 12545, 100, 1)

PvArrayInputPower == Register("Register", 12546, 100, 2)

BatteryVoltage == Register("Register", 12548, 100, 1)

BatteryTemperature == Register("Register", 12560, 100, 1)

GeneratedEnergyToday == Register("Register", 13068, 100, 2)

TotalGeneratedEnergy == Register("Register", 13074, 100, 2)

ChargingEquipmentStatus == Register("StatusRegister", 12801, 1, 1)

CollectRegisters ==
  <<PvArrayInputVoltage, PvArrayInputCurrent, PvArrayInputPower,
    BatteryVoltage, BatteryTemperature, GeneratedEnergyToday,
    TotalGeneratedEnergy, ChargingEquipmentStatus>>

\* RegisterValue.__float__: float(self.value)
FloatOf(register_value) ==
  IF register_value.value.t \in {"int", "float", "bool"}
    THEN Ok(register_value.value)
    ELSE Raise("TypeError")

\* RegisterValue.__int__: int(self.value)
IntOfValue(register_value) ==
  IF register_value.value.t \in {"int", "bool"} THEN Ok(register_value.value)
  ELSE IF register_value.value.t = "float"
    THEN Ok(IntOf(TruncFloatMul(ToInt(register_value.value.raw),
                                register_value.value.div, 1)))
  ELSE Raise("TypeError")

\* ChargingMode.parse(...).name
ChargingModeParse(charging_equipment_status) ==
  LET asInt == IntOfValue(charging_equipment_status)
      code == (Limb(asInt.ret, 0) \div 4) % 4
  IN IF asInt.err # "none" THEN asInt
     ELSE Ok(IF code = 0 THEN "Off" ELSE IF code = 1 THEN "Float"
             ELSE IF code = 2 THEN "MPPT" ELSE "Equalization")

RECURSIVE CollectFrom(_, _, _)
\* _collect_values from its i-th read on; acc is what the reads before gave
CollectFrom(i, replies, acc) ==
  IF i > Len(CollectRegisters) THEN acc
  ELSE LET rd == ReadRegister(CollectRegisters[i], replies[i])
           trace == acc.trace \o rd.trace
           used == acc.replies \o rd.replies
           field == IF i = Len(CollectRegisters)
                      THEN ChargingModeParse(rd.out.ret)
                      ELSE FloatOf(rd.out.ret)
       IN IF rd.out.err # "none" THEN Done(rd.out, trace, used)
          ELSE IF field.err # "none" THEN Done(field, trace, used)
          ELSE CollectFrom(i + 1, replies,
                           Done(Ok(Append(acc.out.ret, field.ret)), trace, used))

\* _collect_values
CollectValues(replies) == CollectFrom(1, replies, Done(Ok(<<>>), <<>>, <<>>))

\* collect: the device information query, then _collect_values
Collect(infoReply, replies) ==
  LET query == <<TransportCall("execute", 0, "ReadDeviceInformationRequest")>>
      results == CollectValues(replies)
  IN IF infoReply.kind = "raise"
       THEN Done(Raise("TransportError"), query, <<infoReply>>)
     ELSE IF infoReply.kind # "information"
       THEN Done(Raise("AttributeError"), query, <<infoReply>>)
     ELSE Done(results.out, query \o results.trace, <<infoReply>> \o results.replies)


\* --------------------------------------------------------- status decoders
\* val & (1 << k), as the truth value the if statement tests
Bit(val, k) == (Limb(val, 0) \div Pow2(k)) % 2 = 1

\* the same with every code up to the field's value taken as a match
FieldAtLeast(val, shift, width, code) ==
  (Limb(val, 0) \div Pow2(shift)) % Pow2(width) >= code

\* (val & mask) >> shift == code, mask the width bits from bit shift up
FieldIs(val, shift, width, code) ==
  (Limb(val, 0) \div Pow2(shift)) % Pow2(width) = code

\* one if statement of a describe function: the list it appends to, and what
Row(on, to, say) == [on |-> on, to |-> to, say |-> say]

\* the (status, faults) pair the if statements of a describe function build
Described(table) ==
  LET ToStatus(r) == r.on /\ r.to = "status"
      ToFaults(r) == r.on /\ r.to = "faults"
      status == SelectSeq(table, ToStatus)
      faults == SelectSeq(table, ToFaults)
  IN [status |-> [i \in 1..Len(status) |-> status[i].say],
      faults |-> [i \in 1..Len(faults) |-> faults[i].say]]

\* RealtimeStatus.describe_battery_status
BatteryStatusTable(val) ==
  <<Row(Bit(val, 15), "faults", "Wrong identification for rated voltage"),
    Row(Bit(val, 8), "faults", "Battery internal resistance abnormal"),
    Row(~Bit(val, 8), "status", "Battery internal resistance normal"),
    Row(FieldIs(val, 4, 4, 2), "faults", "Battery temperature too low"),
    Row(FieldIs(val, 4, 4, 1), "faults", "Battery temperature too high"),
    Row(FieldIs(val, 4, 4, 0), "faults", "Battery temperature normal"),
    Row(FieldIs(val, 0, 4, 4), "faults", "Voltage fault"),
    Row(FieldIs(val, 0, 4, 3), "faults", "Low voltage disconnect"),
    Row(FieldIs(val, 0, 4, 2), "faults", "Voltage too low"),
    Row(FieldIs(val, 0, 4, 1), "faults", "Voltage too high"),
    Row(FieldIs(val, 0, 4, 0), "faults", "Voltage normal")>>

\* RealtimeStatus.describe_charging_equipment_status
ChargingEquipmentStatusTable(val) ==
  <<Row(FieldIs(val, 14, 2, 3), "faults", "Input voltage error"),
    Row(FieldIs(val, 14, 2, 2), "faults", "Input voltage too high"),
    Row(FieldIs(val, 14, 2, 1), "faults", "Input voltage disconnected"),
    Row(FieldIs(val, 14, 2, 0), "status", "Input voltage normal"),
    Row(Bit(val, 13), "faults", "Charging MOSFET is shorted"),
    Row(Bit(val, 12), "faults", "Charging or anti-reverse MOSFET is shorted"),
    Row(Bit(val, 11), "faults", "Anti-reverse MOSFET is shorted"),
    Row(Bit(val, 10), "faults", "Input current too high"),
    Row(Bit(val, 9), "faults", "Load current too high"),
    Row(Bit(val, 8), "faults", "Load is shorted"),
    Row(Bit(val, 7), "faults", "Load MOSFET is shorted"),
    Row(Bit(val, 4), "faults", "PV input is shorted"),
    Row(FieldIs(val, 2, 2, 3), "status", "Mode is equalization"),
    Row(FieldIs(val, 2, 2, 2), "status", "Mode is boost"),
    Row(FieldIs(val, 2, 2, 1), "status", "Mode is float"),
    Row(FieldIs(val, 2, 2, 0), "status", "Not charging"),
    Row(Bit(val, 1), "faults", "Charging fault"),
    Row(~Bit(val, 1), "status", "Charging system normal"),
    Row(Bit(val, 0), "status", "Charging system active"),
    Row(~Bit(val, 0), "status", "Charging system standby")>>

\* RealtimeStatus.describe_discharging_equipment_status
DischargingEquipmentStatusTable(val) ==
  <<Row(FieldIs(val, 14, 2, 3), "faults", "Input voltage error"),
    Row(FieldIs(val, 14, 2, 2), "faults", "Input voltage too high"),
    Row(FieldIs(val, 14, 2, 1), "faults", "Input voltage too low"),
    Row(FieldIs(val, 14, 2, 0), "status", "Input voltage normal"),
    Row(FieldIs(val, 12, 2, 3), "faults", "Output power overload"),
    Row(FieldIs(val, 12, 2, 2), "status", "Output power near rated limit"),
    Row(FieldIs(val, 12, 2, 1), "status", "Output power moderate"),
    Row(FieldIs(val, 12, 2, 0), "status", "Output power light load"),
    Row(Bit(val, 11), "faults", "Short circuit"),
    Row(Bit(val, 10), "faults", "Unable to discharge"),
    Row(Bit(val, 9), "faults", "Unable to stop discharging"),
    Row(Bit(val, 8), "faults", "Output voltage abnormal"),
    Row(Bit(val, 7), "faults", "Input current too high"),
    Row(Bit(val, 6), "faults", "PV input is shorted"),
    Row(Bit(val, 5), "faults", "Boost current too high"),
    Row(Bit(val, 4), "faults", "Output current too high"),
    Row(Bit(val, 1), "faults", "Discharging fault"),
    Row(~Bit(val, 1), "status", "Discharging system normal"),
    Row(Bit(val, 0), "status", "Discharging system active"),
    Row(~Bit(val, 0), "status", "Discharging system standby")>>

\* RealtimeStatus.BatteryStatus
BatteryStatus == Register("StatusRegister", 12800, 1, 1)

\* RealtimeStatus.DischargingEquipmentStatus
DischargingEquipmentStatus == Register("StatusRegister", 12802, 1, 1)

\* register.describe(val), by the describe_fn the StatusRegister was built
\* with; val & ... raises TypeError on a val that is no int
Describe(register, val) ==
  IF val.t # "int" THEN Raise("TypeError")
  ELSE IF register = BatteryStatus THEN Ok(Described(BatteryStatusTable(val)))
  ELSE IF register = ChargingEquipmentStatus
    THEN Ok(Described(ChargingEquipmentStatusTable(val)))
  ELSE Ok(Described(DischargingEquipmentStatusTable(val)))

\* ----------------------------------------------------------------- inputs
\* what the transport can do on a call: raise, hand back an object with
\* neither registers nor bits (an error response), or a response carrying
\* a word or bit sequence
RaiseReply == [kind |-> "raise", data |-> <<>>]

NoDataReply == [kind |-> "none", data |-> <<>>]

InformationReply == [kind |-> "information", data |-> <<>>]

\* the reply to a write that went through
WrittenReply == [kind |-> "written", data |-> <<>>]

RegistersReply(ws) == [kind |-> "registers", data |-> ws]

BitsReply(bs) == [kind |-> "bits", data |-> bs]

WordSamples == {0, 1, 29, SignBit, WordMask}

\* 2023-06-15 10:30:45, 2128-02-29 23:59:59, and month 0 (no date)
ClockWordSamples ==
  {<<7725, 3850, 5894>>, <<15163, 7447, 32770>>, <<0, 0, 5888>>}

WordSeqs == UNION {[1..n -> WordSamples] : n \in 0..MaxWords}

BitSeqs == UNION {[1..n -> BOOLEAN] : n \in 0..MaxWords}

RegisterResponses(register) ==
  {NoDataReply} \cup {RegistersReply(ws) : ws \in WordSeqs}
    \cup (IF register.cls = "RTC"
            THEN {RegistersReply(ws) : ws \in ClockWordSamples}
            ELSE {})

BitResponses == {NoDataReply} \cup {BitsReply(bs) : bs \in BitSeqs}

\* the replies the transport primitive of a register can give
RepliesTo(register) ==
  {RaiseReply} \cup
    (IF register.type \in {"coil", "discrete"} THEN BitResponses
     ELSE RegisterResponses(register))

AddressSamples == {-1, 0, 4095, 4096, 12287, 12288, 36863, 36864, 65535, 65536}

\* catalog entries (SettingParameter, ControlCoil, RealtimeStatus) besides
\* the ones the collection reads
HighVoltageDisconnect == Register("Register", 36867, 100, 1)

LoadControl == Register("Coil", 2, 1, 1)

OverTemperature == Register("Register", 8192, 1, 1)

DayNight == Register("Register", 8204, 1, 1)

Catalog ==
  {PvArrayInputVoltage, PvArrayInputCurrent, PvArrayInputPower, BatteryVoltage,
   BatteryTemperature, GeneratedEnergyToday, TotalGeneratedEnergy,
   ChargingEquipmentStatus, BatteryStatus, DischargingEquipmentStatus,
   HighVoltageDisconnect, Clock, LoadControl, OverTemperature, DayNight}

StatusRegisters == {BatteryStatus, ChargingEquipmentStatus, DischargingEquipmentStatus}

\* 16-bit status words, by their four hex digits: one digit takes every
\* value while each of the others is 0 or F (every field of the three
\* registers lies within one digit)
StatusWordSamples ==
  LET Ends == {0, 15}
      Word(a, b, c, d) == a * 4096 + b * 256 + c * 16 + d
  IN {Word(x, b, c, d) : x \in 0..15, b \in Ends, c \in Ends, d \in Ends}
       \cup {Word(a, x, c, d) : x \in 0..15, a \in Ends, c \in Ends, d \in Ends}
       \cup {Word(a, b, x, d) : x \in 0..15, a \in Ends, b \in Ends, d \in Ends}
       \cup {Word(a, b, c, x) : x \in 0..15, a \in Ends, b \in Ends, c \in Ends}

\* what describe is given: a status word as it is on the wire, as decode
\* sign-extends it, or the None of a read without data
StatusValues ==
  {IntOf(w) : w \in StatusWordSamples}
    \cup {RegisterDecode(BatteryStatus, RegistersReply(<<w>>)).ret.raw_value :
            w \in StatusWordSamples}
    \cup {NoneV}

\* registers outside the catalog: one at each edge of the address ranges,
\* other multipliers and word counts, a clock at a read-only address
Registers ==
  Catalog
    \cup {Register("Register", a, 1, 1) : a \in AddressSamples}
    \cup {Register("Register", 36880, 10, 1), Register("Register", 36896, 100, 2),
          Register("Register", 36898, 1, 2), RTC(12307)}

YearSamples == {1999, 2000, 2023, 2127, 2128, 2255, 2256}

DateTimeSamples ==
  {DateTime(y, mo, d, h, mi, s) :
     y \in YearSamples, mo \in {2, 6, 12}, d \in {15, 28},
     h \in {10, 23}, mi \in {0, 30}, s \in {45, 59}}

NowSamples == {DateTime(2023, 6, 15, 10, 30, 45), DateTime(2128, 2, 28, 23, 30, 59)}

\* numbers a caller writes: ints, and floats given as float(k) / d
NumberSamples ==
  {IntOf(n) : n \in {-32769, -1, 0, 1, 29, 300, 32768, 65536}}
    \cup {FloatDiv(IntOf(k), 4) : k \in {-11, -10, 1, 10, 11, 14}}
    \cup {FloatDiv(IntOf(k), 100) : k \in {-29, 28, 29, 57}}
    \cup {BoolV(TRUE), BoolV(FALSE)}

\* ints at the edges of the one-word and two-word signed ranges: the last
\* two are 2^31 and -2^31 - 1
EdgeIntSamples ==
  {IntOf(-32768), IntOf(32767), IntOf(2147483647), IntOf(-2147483647 - 1),
   [t |-> "int", w |-> [i \in 1..NLimbs |-> IF i = 2 THEN SignBit ELSE 0],
    neg |-> FALSE],
   [t |-> "int", w |-> [i \in 1..NLimbs |-> IF i = 2 THEN SignBit - 1 ELSE WordMask],
    neg |-> TRUE]}

ValuesFor(register) ==
  NumberSamples \cup {NoneV}
    \cup (IF register.cls = "RTC" THEN DateTimeSamples ELSE NowSamples)
    \cup (IF register.multiplier = 1 THEN EdgeIntSamples ELSE {})

Request(op, register, arg) == [op |-> op, register |-> register, arg |-> arg]

Requests ==
  {Request("decode", r, resp) :
     r \in Registers, resp \in RegisterResponses(Clock) \cup BitResponses}
    \cup UNION {{Request("encode", r, v) : v \in ValuesFor(r)} : r \in Registers}
    \cup {Request("read_register", r, NoneV) : r \in Registers}
    \cup UNION {{Request("write_register", r, v) : v \in ValuesFor(r)} : r \in Registers}
    \cup {Request("sync_rtc", Clock, now) : now \in NowSamples}
    \cup {Request("describe", r, val) : r \in StatusRegisters, val \in StatusValues}
    \cup {Request("collect", NoneV, NoneV)}

\* the replies a scripted collection sees on its reads
CollectReplies(register) ==
  {RaiseReply, NoDataReply, RegistersReply([i \in 1..register.size |-> 5])}

CollectScripts ==
  {script \in [1..Len(CollectRegisters) -> {RaiseReply, NoDataReply, RegistersReply(<<5>>),
                                             RegistersReply(<<5, 5>>)}] :
     \A i \in 1..Len(CollectRegisters) : script[i] \in CollectReplies(CollectRegisters[i])}

\* the responses a call decoded, each with the register that decoded it
ReadsOf(req, used) ==
  IF req.op = "decode" THEN {[register |-> req.register, response |-> req.arg]}
  ELSE IF req.op = "read_register"
    THEN {[register |-> req.register, response |-> used[i]] : i \in 1..Len(used)}
  ELSE IF req.op = "sync_rtc"
    THEN {[register |-> Clock, response |-> used[i]] : i \in 1..Len(used) \cap {1}}
  ELSE IF req.op = "collect"
    THEN {[register |-> CollectRegisters[i - 1], response |-> used[i]] :
            i \in 2..Len(used)}
  ELSE {}

\* the RegisterValue objects of a call, each as the sequence of its states
ObjectsOf(req, used) ==
  UNION {ValueStates(rd.register, rd.response) :
           rd \in {r \in ReadsOf(req, used) : r.response.kind # "raise"}}

\* the same with decode storing the number of returned words as the size
CatalogResized(cat, req, used) ==
  {IF r = req.register /\ used # <<>>
     THEN [r EXCEPT !.size = Len(used[1].data)] ELSE r : r \in cat}

\* the catalog as a call leaves it: decode, encode, read_register,
\* write_register, sync_rtc and collect assign no attribute of a Register
CatalogAfter(cat, req, used) == cat

\* ---------------------------------------------------------- state machine
VARIABLES
  request,   \* the call under way or finished: operation, register, argument
  phase,     \* "idle" before the call runs, "done" after
  outcome,   \* what the call returned or raised
  trace,     \* the transport calls and log lines of the call, in order
  replies,   \* the transport replies the call consumed, in order
  objects,   \* the RegisterValue objects of the call, each with its states
  catalog,   \* the Register objects of the static catalog
  \* the process of main.py
  clock,        \* the passes of the scheduling loop so far
  next_run,     \* when each scheduled job is next due
  pc,           \* where the main thread is
  running,      \* the job the main thread runs: its transport calls, its end
  at,           \* the transport call of the running job that comes next
  outstanding,  \* the transport requests issued and not yet answered
  mqtt,         \* where the MQTT network thread is
  delivered,    \* the callbacks the network thread has run
  failed        \* a scheduled job has raised

\* the variables of one call on the client, and those of the process
cvars == <<request, phase, outcome, trace, replies, objects, catalog>>

svars == <<clock, next_run, pc, running, at, outstanding, mqtt, delivered, failed>>

vars == <<cvars, svars>>

\* the jobs main schedules, in the order it schedules them
Jobs == <<"refresh_mqtt_client_token", "sync_rtc", "collect">>

\* schedule.every(...): the passes between two runs of a job
Period(job) ==
  IF job = "refresh_mqtt_client_token" THEN TokenPasses
  ELSE IF job = "sync_rtc" THEN DayPasses
  ELSE MinutePasses

NoJob == [job |-> "", calls |-> <<>>, err |-> "none"]

\* main has not started
ProcessOff ==
  /\ clock = 0
  /\ next_run = [i \in 1..Len(Jobs) |-> Period(Jobs[i])]
  /\ pc = "off"
  /\ running = NoJob
  /\ at = 1
  /\ outstanding = 0
  /\ mqtt = "off"
  /\ delivered = 0
  /\ failed = FALSE

Init ==
  /\ request \in Requests
  /\ phase = "idle"
  /\ outcome = Ok(NoneV)
  /\ trace = <<>>
  /\ replies = <<>>
  /\ objects = {}
  /\ catalog = Catalog
  /\ ProcessOff

\* the call has run: did is what it did (bound, so that it is worked out once)
Finish(done) ==
  \E did \in {done} :
    /\ phase' = "done"
    /\ outcome' = did.out
    /\ trace' = did.trace
    /\ replies' = did.replies
    /\ objects' = ObjectsOf(request, did.replies)
    /\ catalog' = CatalogAfter(catalog, request, did.replies)
    /\ UNCHANGED <<request, svars>>

DoDecode ==
  /\ phase = "idle" /\ request.op = "decode"
  /\ Finish(Done(Decode(request.register, request.arg), <<>>, <<>>))

DoEncode ==
  /\ phase = "idle" /\ request.op = "encode"
  /\ Finish(Done(Encode(request.register, request.arg), <<>>, <<>>))

DoReadRegister ==
  /\ phase = "idle" /\ request.op = "read_register"
  /\ \E reply \in RepliesTo(request.register) :
       Finish(ReadRegister(request.register, reply))

DoWriteRegister ==
  /\ phase = "idle" /\ request.op = "write_register"
  /\ \E reply \in {RaiseReply, WrittenReply} :
       Finish(WriteRegister(request.register, request.arg, reply))

DoSyncRtc ==
  /\ phase = "idle" /\ request.op = "sync_rtc"
  /\ \E readReply \in RepliesTo(Clock), writeReply \in {RaiseReply, WrittenReply} :
       Finish(SyncRtc(request.arg, readReply, writeReply))

DoDescribe ==
  /\ phase = "idle" /\ request.op = "describe"
  /\ Finish(Done(Describe(request.register, request.arg), <<>>, <<>>))

DoCollect ==
  /\ phase = "idle" /\ request.op = "collect"
  /\ \E infoReply \in {RaiseReply, NoDataReply, InformationReply},
        script \in CollectScripts :
       Finish(Collect(infoReply, script))

Next ==
  \/ DoDecode
  \/ DoEncode
  \/ DoReadRegister
  \/ DoWriteRegister
  \/ DoSyncRtc
  \/ DoDescribe
  \/ DoCollect

Spec == Init /\ [][Next]_vars

\* ------------------------------------------------------ the process (main)
\* the transport calls a callback of the MQTT network thread makes with a
\* command that asks for the load to be switched
CallbackSwitchesLoad(callback) ==
  IF callback = "on_mqtt_command_message"
    THEN <<TransportCall("write_coils", 2, <<TRUE>>)>>
    ELSE <<>>

\* the transport calls a callback of the MQTT network thread makes:
\* on_mqtt_connect subscribes, the message callbacks log
CallbackCalls(callback) == <<>>

Callbacks == {"on_mqtt_connect", "on_mqtt_config_message", "on_mqtt_command_message"}

\* the replies the device gives to the reads of a scheduled collection: every
\* read answered, or one of them failing or answered with no data
AnsweredScript ==
  [i \in 1..Len(CollectRegisters) |->
     RegistersReply([k \in 1..CollectRegisters[i].size |-> 5])]

JobScripts ==
  {AnsweredScript} \cup
  {[AnsweredScript EXCEPT ![i] = reply] :
     i \in 1..Len(CollectRegisters), reply \in {RaiseReply, NoDataReply}}

\* what a run of a scheduled job meets: the key file of
\* refresh_mqtt_client_token read or missing, the replies of the device to
\* epsolar_tracer_sync_rtc and to epsolar_tracer_collect
JobInputs(job) ==
  IF job = "refresh_mqtt_client_token"
    THEN {[first |-> key, rest |-> <<>>] : key \in {"read", "missing"}}
  ELSE IF job = "sync_rtc"
    THEN {[first |-> readReply, rest |-> writeReply] :
            readReply \in {RaiseReply, NoDataReply, RegistersReply(<<7725, 3850, 5894>>)},
            writeReply \in {RaiseReply, WrittenReply}}
  ELSE {[first |-> infoReply, rest |-> script] :
          infoReply \in {RaiseReply, InformationReply}, script \in JobScripts}

\* what a run of a scheduled job does: refresh_mqtt_client_token opens the
\* key file and sets the password, epsolar_tracer_sync_rtc and
\* epsolar_tracer_collect each talk to the device through a client of their own
JobRun(job, input) ==
  IF job = "refresh_mqtt_client_token"
    THEN Done(IF input.first = "read" THEN Ok(NoneV) ELSE Raise("OSError"), <<>>, <<>>)
  ELSE IF job = "sync_rtc"
    THEN SyncRtc(DateTime(2023, 6, 15, 10, 30, 45), input.first, input.rest)
  ELSE Collect(input.first, input.rest)

\* the transport calls of a run, in order
TransportCalls(did) ==
  LET Called(e) == e.ev = "call"
  IN SelectSeq(did.trace, Called)

\* the time after which the model stops the clock
Horizon == 2 * DayPasses

\* main up to the try statement: the MQTT network thread is started and the
\* three jobs are scheduled, each a period from now
Main ==
  /\ clock = 0
  /\ next_run = [i \in 1..Len(Jobs) |-> Period(Jobs[i])]
  /\ pc = "run_pending"
  /\ running = NoJob
  /\ at = 1
  /\ outstanding = 0
  /\ mqtt = "idle"
  /\ delivered = 0
  /\ failed = FALSE

ProcessInit ==
  /\ request = Request("main", NoneV, NoneV)
  /\ phase = "idle"
  /\ outcome = Ok(NoneV)
  /\ trace = <<>>
  /\ replies = <<>>
  /\ objects = {}
  /\ catalog = Catalog
  /\ Main

\* the jobs run_pending finds due, and the one it runs first: the earliest
\* due, in the order of scheduling among equals
Pending == {i \in 1..Len(Jobs) : next_run[i] <= clock}

FirstPending ==
  CHOOSE i \in Pending :
    \A k \in Pending : next_run[i] < next_run[k] \/ (next_run[i] = next_run[k] /\ i <= k)

\* schedule.run_pending calls the next due job
StartJob ==
  /\ pc = "run_pending" /\ Pending # {}
  /\ \E input \in JobInputs(Jobs[FirstPending]) :
     \E did \in {JobRun(Jobs[FirstPending], input)} :
       running' = [job |-> Jobs[FirstPending], calls |-> TransportCalls(did),
                   err |-> did.out.err]
  /\ at' = 1
  /\ pc' = "in_job"
  /\ UNCHANGED <<cvars, clock, next_run, outstanding, mqtt, delivered, failed>>

\* the running job hands a request to the transport and blocks
IssueCall ==
  /\ pc = "in_job" /\ at <= Len(running.calls)
  /\ outstanding' = outstanding + 1
  /\ pc' = "in_call"
  /\ UNCHANGED <<cvars, clock, next_run, running, at, mqtt, delivered, failed>>

\* the transport returns the response or raises the error
CallReturns ==
  /\ pc = "in_call"
  /\ outstanding' = outstanding - 1
  /\ at' = at + 1
  /\ pc' = "in_job"
  /\ UNCHANGED <<cvars, clock, next_run, running, mqtt, delivered, failed>>

\* the job returns: run_pending schedules its next run and goes on
JobReturns ==
  /\ pc = "in_job" /\ at > Len(running.calls) /\ running.err = "none"
  /\ next_run' = [next_run EXCEPT ![FirstPending] = clock + Period(running.job)]
  /\ running' = NoJob
  /\ at' = 1
  /\ pc' = "run_pending"
  /\ UNCHANGED <<cvars, clock, outstanding, mqtt, delivered, failed>>

\* the job raises: nothing between the job and the try statement of main
\* catches the exception, so it leaves run_pending and the while loop
JobRaises ==
  /\ pc = "in_job" /\ at > Len(running.calls) /\ running.err # "none"
  /\ failed' = TRUE
  /\ pc' = "finally"
  /\ UNCHANGED <<cvars, clock, next_run, running, at, outstanding, mqtt, delivered>>

\* the finally clause: loop_stop joins the network thread, disconnect, and
\* the exception ends the process
LoopStop ==
  /\ pc = "finally" /\ mqtt = "idle"
  /\ mqtt' = "stopped"
  /\ pc' = "stopped"
  /\ UNCHANGED <<cvars, clock, next_run, running, at, outstanding, delivered, failed>>

\* nothing is due: time.sleep(1)
Sleep ==
  /\ pc = "run_pending" /\ Pending = {} /\ clock < Horizon
  /\ clock' = clock + 1
  /\ UNCHANGED <<cvars, next_run, pc, running, at, outstanding, mqtt, delivered, failed>>

\* the network thread runs a callback, up to the transport calls it makes
MqttCallback ==
  /\ mqtt = "idle" /\ delivered < MaxCallbacks
  /\ \E callback \in Callbacks :
       /\ mqtt' = callback
       /\ outstanding' = outstanding + Len(CallbackCalls(callback))
  /\ UNCHANGED <<cvars, clock, next_run, pc, running, at, delivered, failed>>

\* the callback returns
MqttCallbackReturns ==
  /\ mqtt \in Callbacks
  /\ outstanding' = outstanding - Len(CallbackCalls(mqtt))
  /\ mqtt' = "idle"
  /\ delivered' = delivered + 1
  /\ UNCHANGED <<cvars, clock, next_run, pc, running, at, failed>>

ProcessNext ==
  \/ StartJob
  \/ IssueCall
  \/ CallReturns
  \/ JobReturns
  \/ JobRaises
  \/ LoopStop
  \/ Sleep
  \/ MqttCallback
  \/ MqttCallbackReturns

ProcessSpec == ProcessInit /\ [][ProcessNext]_vars

\* ================================================================ claims
Finished(op) == phase = "done" /\ request.op = op

IsCall(e) == e.ev = "call"

NoTransportCall == \A i \in 1..Len(trace) : ~IsCall(trace[i])

IsNumber(v) == v.t \in {"int", "float", "bool"}

\* the classifications with no transport primitive for the operation
LacksPrimitive ==
  \/ request.op = "write_register" /\ request.register.type \in {"input", "discrete", "unknown"}
  \/ request.op = "read_register" /\ request.register.type = "unknown"

\* the values encode turns into words: a number, or a timestamp for the clock
Encodable(register, value) ==
  IsNumber(value) \/ (register.cls = "RTC" /\ value.t = "datetime")

\* C1 (as stated): every read_register or write_register call on a register
\* whose classification has no transport primitive for the operation fails
\* with UnsupportedOperation and issues no transport call.
C1_Original ==
  (phase = "done" /\ LacksPrimitive)
    => (outcome.err = "Unsupported" /\ NoTransportCall)

\* C1 (amended): such a call fails and issues no transport call; it fails
\* with UnsupportedOperation when it is a read or when the value of the
\* write encodes, and with the error of encode when the value does not.
C1_UnsupportedIssuesNoCall ==
  (phase = "done" /\ LacksPrimitive)
    => /\ NoTransportCall
       /\ outcome.err =
            (IF request.op = "write_register"
                  /\ ~Encodable(request.register, request.arg)
               THEN "TypeError" ELSE "Unsupported")

C1_Witness ==
  /\ Finished("write_register")
  /\ request.register.type = "input"
  /\ IsNumber(request.arg)
  /\ outcome.err = "Unsupported"
  /\ trace = <<>>

\* the response carries no data for the variant that decodes it
CarriesNothing(register, response) ==
  IF register.cls = "Coil"
    THEN response.kind # "bits" \/ Len(response.data) = 0
    ELSE response.kind # "registers" \/ Len(response.data) = 0

\* C2: decoding a response that carries no registers/bits, an empty sequence
\* included, never raises, whatever the register variant, and yields a
\* RegisterValue with raw absent and value absent.
C2_AbsentDataNeverRaises ==
  (Finished("decode") /\ CarriesNothing(request.register, request.arg))
    => /\ outcome.err = "none"
       /\ outcome.ret.raw_value = NoneV
       /\ outcome.ret.value = NoneV

\* the call consumed a no-data reply to a register read and no reply raised
\* (reply 1 of a collection answers the device information query)
OnlyNoDataWentWrong ==
  /\ \E i \in 1..Len(replies) : replies[i] = NoDataReply
  /\ \A i \in 1..Len(replies) : replies[i].kind # "raise"
  /\ request.op = "collect" => replies[1] = InformationReply

\* C3: NoData is never raised as an error: when the device returns no
\* registers/bits for a read whose transport call succeeded, read_register
\* returns a RegisterValue with value absent, and sync_clock and the
\* telemetry collection complete without raising.
C3_NoDataNeverRaised ==
  (phase = "done" /\ request.op \in {"read_register", "sync_rtc", "collect"}
     /\ OnlyNoDataWentWrong)
    => /\ outcome.err = "none"
       /\ request.op = "read_register" => outcome.ret.value = NoneV

IndicesOf(P(_)) == {i \in 1..Len(trace) : P(trace[i])}

IsRtcRead(e) == IsCall(e) /\ e.fn = "read_holding_registers" /\ e.address = Clock.address

IsRtcWrite(e) == IsCall(e) /\ e.fn = "write_registers" /\ e.address = Clock.address

IsTimeLog(e) == e.ev = "log" /\ e.msg \in {"Device time was", "System time now"}

\* the read of sync_rtc failed: the transport raised, or decoding raised
RtcReadFailed ==
  /\ Len(replies) >= 1
  /\ \/ replies[1].kind = "raise"
     \/ Decode(Clock, replies[1]).err # "none"

\* C4 (as stated): in sync_clock the read round trip finishes before the
\* write is issued, the device/local time is logged before the write, and a
\* failed read leaves the write unissued.
C4_Original ==
  Finished("sync_rtc") =>
    /\ \A w \in IndicesOf(IsRtcWrite) : \E r \in IndicesOf(IsRtcRead) : r < w
    /\ \A w \in IndicesOf(IsRtcWrite) : \E l \in IndicesOf(IsTimeLog) : l < w
    /\ RtcReadFailed => IndicesOf(IsRtcWrite) = {}

\* C4 (amended): the read round trip finishes before the write is issued, a
\* failed read leaves the write unissued, and the device time and the system
\* time are logged only after the write has returned (never before it).
C4_ReadThenWriteThenLog ==
  Finished("sync_rtc") =>
    /\ \A w \in IndicesOf(IsRtcWrite) : \E r \in IndicesOf(IsRtcRead) : r < w
    /\ \A l \in IndicesOf(IsTimeLog) : \E w \in IndicesOf(IsRtcWrite) : w < l
    /\ RtcReadFailed => IndicesOf(IsRtcWrite) = {}
    /\ IndicesOf(IsRtcWrite) # {} => Len(replies) >= 1 /\ ~RtcReadFailed

C4_Witness ==
  /\ Finished("sync_rtc")
  /\ outcome.err = "none"
  /\ IndicesOf(IsRtcRead) = {2} /\ IndicesOf(IsRtcWrite) = {3}
  /\ IndicesOf(IsTimeLog) = {4, 5}

\* the range function of the address, as the claim gives it
ClaimedCategories(address) ==
  {c \in {"coil", "discrete", "input", "holding", "unknown"} :
     \/ c = "coil" /\ address \in 0..4095
     \/ c = "discrete" /\ address \in 4096..12287
     \/ c = "input" /\ address \in 12288..36863
     \/ c = "holding" /\ address \in 36864..65535
     \/ c = "unknown" /\ address \notin 0..65535}

\* C5: every register's classification equals the range function of its
\* address, and exactly one category is assigned to each address.
C5_Classification ==
  request.register # NoneV =>
    ClaimedCategories(request.register.address) = {request.register.type}

C5_Witness ==
  /\ phase = "done"
  /\ request.register # NoneV
  /\ request.register.address = 65536
  /\ request.register.type = "unknown"

\* v, read as a signed number n words wide, is in range:
\* -2^(16n-1) <= v < 2^(16n-1)
InSignedRange(v, n) ==
  /\ \A i \in (n + 1)..Len(v.w) : v.w[i] = Ext(v)
  /\ (v.w[n] >= SignBit) <=> v.neg

\* the words ws read as one two's complement number, 16 * Len(ws) bits wide
TwosComplement(ws) ==
  LET top == ws[Len(ws)] >= 32768
  IN [t |-> "int",
      w |-> [i \in 1..NLimbs |->
               IF i <= Len(ws) THEN ws[i] ELSE IF top THEN 65535 ELSE 0],
      neg |-> top]

Signed16(word) == word - (IF word >= 32768 THEN 65536 ELSE 0)

\* a decode of a response that carries words went through
DecodedWords ==
  /\ Finished("decode")
  /\ request.register.cls # "Coil"
  /\ request.arg.kind = "registers"
  /\ Len(request.arg.data) >= 1
  /\ outcome.err = "none"

\* C6 (as stated): decode composes raw as the OR of word[i] << (16*i) and
\* subtracts 1 << (16*word_count), word_count the register's declared word
\* count, when the high bit of the last returned word is set; raw lies in
\* [-2^(16*word_count-1), 2^(16*word_count-1)) for every word sequence.
C6_Original ==
  DecodedWords =>
    LET ws == request.arg.data
        composed == OrWords(ws)
    IN /\ outcome.ret.raw_value =
            (IF ws[Len(ws)] >= 32768
               THEN SubShift(composed, request.register.size)
               ELSE composed)
       /\ InSignedRange(outcome.ret.raw_value, request.register.size)

\* C6 (amended): decode composes raw as the OR of word[i] << (16*i) and
\* subtracts 1 << (16*n), n the number of words the response carries (the
\* declared word count when the device returns as many as were asked for),
\* when the high bit of the last returned word is set: [0xFFFF] decodes to
\* -1, [0x0001] to 1, and raw lies in [-2^(16n-1), 2^(16n-1)).
C6_SignExtendsOverReturnedWords ==
  DecodedWords =>
    LET ws == request.arg.data
        raw == outcome.ret.raw_value
    IN /\ raw = TwosComplement(ws)
       /\ InSignedRange(raw, Len(ws))
       /\ Len(ws) = 1 => ToInt(raw) = Signed16(ws[1])
       /\ Len(ws) = 2 => ToInt(raw) = Signed16(ws[2]) * 65536 + ws[1]
       /\ ws = <<65535>> => raw = IntOf(-1)
       /\ ws = <<1>> => raw = IntOf(1)

C6_Witness ==
  /\ DecodedWords
  /\ request.register.size = 1
  /\ request.arg.data = <<65535>>
  /\ outcome.ret.raw_value = IntOf(-1)

\* C7: for a Plain register with multiplier m # 1 and a word sequence W of
\* the register's word count, encode of the value of decode(W) is W.
\* (The one W left out is raw = -2^31, whose magnitude the arithmetic of
\* the model does not hold.)
C7_DecodeEncodeRoundTrip ==
  (/\ DecodedWords
   /\ request.register.cls = "Register"
   /\ request.register.multiplier # 1
   /\ Len(request.arg.data) = request.register.size
   /\ request.arg.data # <<0, 32768>>)
    => Encode(request.register, outcome.ret.value) = Ok(request.arg.data)

\* the packed layout of the claim, least significant word first
ClaimedClockWords(ts) ==
  <<ts.minute * 256 + ts.second, ts.day * 256 + ts.hour,
    (ts.year - 2000) * 256 + ts.month>>

EncodedTimestamp ==
  /\ Finished("encode")
  /\ request.register.cls = "RTC"
  /\ request.arg.t = "datetime"

ClockRoundTrip ==
  /\ outcome = Ok(ClaimedClockWords(request.arg))
  /\ Decode(request.register, RegistersReply(outcome.ret)).err = "none"
  /\ Decode(request.register, RegistersReply(outcome.ret)).ret.value = request.arg

\* C8 (as stated): RTC encode packs year-2000, month, day, hour, minute and
\* second at bits 40, 32, 24, 16, 8 and 0, returns 3 words least significant
\* first, and decode of those words yields the same six fields, for every
\* valid timestamp.
C8_Original == EncodedTimestamp => ClockRoundTrip

\* C8 (amended): the same, for every valid timestamp of the years 2000 to
\* 2255 (the years whose year-2000 fits the one byte of the layout), the
\* years whose year byte has its top bit set included.
C8_ClockRoundTripInRange ==
  (EncodedTimestamp /\ request.arg.year \in 2000..2255) => ClockRoundTrip

C8_Witness ==
  /\ EncodedTimestamp
  /\ request.arg = DateTime(2023, 6, 15, 10, 30, 45)
  /\ outcome = Ok(<<7725, 3850, 5894>>)

\* the value's shape does not match the register variant
ShapeMismatch(register, value) ==
  IF register.cls = "RTC" THEN value.t # "datetime" ELSE ~IsNumber(value)

\* C9 (as stated): encode fails, and returns no words, when the register's
\* classification is read-only (InputRegister or DiscreteInput) or when the
\* value's shape does not match the register variant.
C9_Original ==
  (/\ Finished("encode")
   /\ \/ request.register.type \in {"input", "discrete"}
      \/ ShapeMismatch(request.register, request.arg))
    => outcome.err # "none" /\ outcome.ret = NoneV

\* C9 (amended): encode does not look at the classification. It fails, and
\* returns no words, exactly when the value is neither a number nor a
\* timestamp given to the RTC register (a timestamp given to a Plain
\* register, None); a number is encoded into word_count words on every
\* classification, read-only included, and by the RTC register too.
C9_EncodeFailsOnShapeOnly ==
  Finished("encode") =>
    /\ outcome.err =
         (IF Encodable(request.register, request.arg) THEN "none" ELSE "TypeError")
    /\ outcome.err # "none" => outcome.ret = NoneV
    /\ outcome.err = "none" => Len(outcome.ret) = request.register.size

C9_Witness ==
  /\ Finished("encode")
  /\ request.register.cls = "RTC"
  /\ request.register.type = "input"
  /\ request.arg.t = "int"
  /\ outcome.err = "none"
  /\ Len(outcome.ret) = 3

\* C10: Plain encode computes raw = round(value * multiplier), to nearest,
\* and returns word_count words, word[i] = (raw >> (16*i)) & 0xFFFF.
C10_EncodeRounds ==
  (/\ Finished("encode")
   /\ request.register.cls # "RTC"
   /\ IsNumber(request.arg))
    => LET raw == IntOfProductRounded(request.arg, request.register.multiplier).ret
       IN outcome = Ok([i \in 1..request.register.size |-> Limb(raw, i - 1)])

\* text occurs in the sequence
Has(seq, text) == \E i \in 1..Len(seq) : seq[i] = text

\* the 16-bit word a describe function was given (of a sign-extended value,
\* its low 16 bits)
DescribedWord == Limb(request.arg, 0)

DescribedInt == Finished("describe") /\ request.arg.t = "int"

\* C11: the battery-status decoder applied to 0x0000 returns a status
\* sequence containing "Battery internal resistance normal" and an empty
\* fault sequence; for every value with bit 15 set the fault sequence
\* contains "Wrong identification for rated voltage".
C11_BatteryStatusOfZero ==
  (DescribedInt /\ request.register = BatteryStatus)
    => /\ outcome.err = "none"
       /\ request.arg = IntOf(0) =>
            /\ Has(outcome.ret.status, "Battery internal resistance normal")
            /\ outcome.ret.faults = <<>>
       /\ DescribedWord >= 32768 =>
            Has(outcome.ret.faults, "Wrong identification for rated voltage")

\* the multi-bit fields of each status register, as its documentation lists
\* them: position, listed codes, and the entries the field can add
StatusFields(register) ==
  IF register = BatteryStatus
    THEN {[shift |-> 4, width |-> 4, codes |-> {0, 1, 2},
           says |-> {"Battery temperature too low", "Battery temperature too high",
                     "Battery temperature normal"}],
          [shift |-> 0, width |-> 4, codes |-> {0, 1, 2, 3, 4},
           says |-> {"Voltage fault", "Low voltage disconnect", "Voltage too low",
                     "Voltage too high", "Voltage normal"}]}
  ELSE IF register = ChargingEquipmentStatus
    THEN {[shift |-> 14, width |-> 2, codes |-> {0, 1, 2, 3},
           says |-> {"Input voltage error", "Input voltage too high",
                     "Input voltage disconnected", "Input voltage normal"}],
          [shift |-> 2, width |-> 2, codes |-> {0, 1, 2, 3},
           says |-> {"Mode is equalization", "Mode is boost", "Mode is float",
                     "Not charging"}]}
  ELSE {[shift |-> 14, width |-> 2, codes |-> {0, 1, 2, 3},
         says |-> {"Input voltage error", "Input voltage too high",
                   "Input voltage too low", "Input voltage normal"}],
        [shift |-> 12, width |-> 2, codes |-> {0, 1, 2, 3},
         says |-> {"Output power overload", "Output power near rated limit",
                   "Output power moderate", "Output power light load"}]}

\* how many entries of the pair come from the given ones
EntriesAmong(pair, says) ==
  LET all == pair.status \o pair.faults
  IN Cardinality({i \in 1..Len(all) : all[i] \in says})

\* C17: each of the three status decoders returns a (status, faults) pair
\* without raising for every 16-bit input, the sign-extended negative form
\* of decode included; a multi-bit field whose value matches none of the
\* listed codes adds no entry, and each multi-bit field adds at most one.
C17_DecodersNeverRaise ==
  DescribedInt =>
    /\ outcome.err = "none"
    /\ DOMAIN outcome.ret = {"status", "faults"}
    /\ \A f \in StatusFields(request.register) :
         LET code == (DescribedWord \div Pow2(f.shift)) % Pow2(f.width)
             n == EntriesAmong(outcome.ret, f.says)
         IN /\ n <= 1
            /\ code \notin f.codes => n = 0

C17_Witness ==
  /\ DescribedInt
  /\ request.register = BatteryStatus
  /\ request.arg = IntOf(-4091)
  /\ outcome =
       Ok([status |-> <<"Battery internal resistance normal">>,
           faults |-> <<"Wrong identification for rated voltage",
                        "Battery temperature normal">>])

\* every state of every RegisterValue object of the call: the object's
\* place among the objects, the state's place among its states
ValueStatesSeen ==
  UNION {{[v |-> states[k], k |-> k] : k \in 1..Len(states)} : states \in objects}

\* the timestamp the six bytes of raw stand for
ClaimedTimestamp(raw) ==
  DateTime(ByteOf(raw, 5) + 2000, ByteOf(raw, 4), ByteOf(raw, 3),
           ByteOf(raw, 2), ByteOf(raw, 1), ByteOf(raw, 0))

\* C12 (as stated): in every reachable RegisterValue, raw absent implies
\* value absent, and value is raw divided by the multiplier when raw is
\* present and the multiplier is not 1, and raw otherwise.
C12_Original ==
  \A seen \in ValueStatesSeen :
    LET v == seen.v
    IN /\ v.raw_value = NoneV => v.value = NoneV
       /\ v.value = (IF v.raw_value # NoneV /\ v.register.multiplier # 1
                       THEN FloatDiv(v.raw_value, v.register.multiplier)
                       ELSE v.raw_value)

\* C12 (amended): raw absent implies value absent; with raw present, value
\* is raw divided by the multiplier when the multiplier is not 1, and raw
\* otherwise, except that the value RTC decode leaves in the RegisterValue it
\* returns is the timestamp unpacked from raw.
C12_ValueFollowsRaw ==
  \A seen \in ValueStatesSeen :
    LET v == seen.v
    IN /\ v.raw_value = NoneV => v.value = NoneV
       /\ v.value =
            (IF v.raw_value # NoneV /\ v.register.multiplier # 1
               THEN FloatDiv(v.raw_value, v.register.multiplier)
             ELSE IF v.raw_value # NoneV /\ v.register.cls = "RTC" /\ seen.k = 2
               THEN ClaimedTimestamp(v.raw_value)
             ELSE v.raw_value)

C12_Witness ==
  /\ Finished("read_register")
  /\ request.register = PvArrayInputVoltage
  /\ outcome.err = "none"
  /\ outcome.ret.raw_value = IntOf(29)
  /\ outcome.ret.value = FloatDiv(IntOf(29), 100)
  /\ objects = {<<outcome.ret>>}

\* C13 (as stated): no operation changes a RegisterValue's fields after its
\* construction has finished, and no read_register, write_register or
\* sync_clock call changes any field of a catalog Register.
C13_Original ==
  /\ \A states \in objects : Len(states) = 1
  /\ catalog = Catalog

\* C13 (amended): no call changes any field of a catalog Register, and no
\* operation changes a RegisterValue after decode has returned it; before it
\* returns, RTC decode assigns the value field of the RegisterValue it has
\* constructed once (the timestamp in place of the raw integer), leaving the
\* register and the raw integer as constructed, and no other decode assigns
\* any field.
C13_OnlyRtcDecodeReassignsValue ==
  /\ catalog = Catalog
  /\ \A states \in objects :
       /\ Len(states) \in {1, 2}
       /\ Len(states) = 2 =>
            /\ states[1].register.cls = "RTC"
            /\ states[2].register = states[1].register
            /\ states[2].raw_value = states[1].raw_value
            /\ states[1].value = states[1].raw_value
            /\ states[2].value.t = "datetime"
  /\ (phase = "done" /\ request.op \in {"decode", "read_register"}
        /\ outcome.err = "none")
       => \E states \in objects :
            objects = {states} /\ outcome.ret = states[Len(states)]

C13_Witness ==
  /\ Finished("read_register")
  /\ request.register = Clock
  /\ catalog = Catalog
  /\ \E states \in objects :
       /\ objects = {states} /\ Len(states) = 2
       /\ states[1].value = states[1].raw_value
       /\ states[2].value = DateTime(2023, 6, 15, 10, 30, 45)
       /\ outcome = Ok(states[2])

\* the transport primitive of each classification, as the claim lists them
ClaimedPrimitive(op, type) ==
  IF op = "read_register"
    THEN (IF type = "coil" THEN "read_coils"
          ELSE IF type = "discrete" THEN "read_discrete_inputs"
          ELSE IF type = "input" THEN "read_input_registers"
          ELSE "read_holding_registers")
    ELSE (IF type = "coil" THEN "write_coils" ELSE "write_registers")

\* a read or write call on a classification that has the primitive
SupportedCall ==
  /\ phase = "done"
  /\ \/ request.op = "read_register"
        /\ request.register.type \in {"coil", "discrete", "input", "holding"}
     \/ request.op = "write_register" /\ request.register.type \in {"coil", "holding"}

\* the call issued one transport call, to the claimed primitive with the
\* register's address, and an error of that call came out of it unchanged
OneRoundTrip ==
  /\ Cardinality(IndicesOf(IsCall)) = 1
  /\ Len(trace) = 1
  /\ trace[1].fn = ClaimedPrimitive(request.op, request.register.type)
  /\ trace[1].address = request.register.address
  /\ Len(replies) = 1
  /\ replies[1].kind = "raise" => outcome.err = "TransportError"

\* C14 (as stated): each read_register or write_register call on a supported
\* classification issues exactly one transport call, to the primitive keyed
\* by the classification with the register's address; if that call raises,
\* the error propagates unchanged and no second call is issued.
C14_Original == SupportedCall => OneRoundTrip

\* C14 (amended): the same for every read, and for every write whose value
\* encodes; a write whose value does not encode fails with the error of
\* encode and issues no transport call.
C14_OneRoundTripPerCall ==
  SupportedCall =>
    IF request.op = "write_register" /\ ~Encodable(request.register, request.arg)
      THEN outcome.err = "TypeError" /\ trace = <<>> /\ replies = <<>>
      ELSE OneRoundTrip

C14_Witness ==
  /\ Finished("read_register")
  /\ request.register.type = "discrete"
  /\ replies = <<RaiseReply>>
  /\ outcome.err = "TransportError"
  /\ trace = <<TransportCall("read_discrete_inputs", request.register.address,
                             request.register.size)>>

IsWrite(e) == IsCall(e) /\ e.fn \in {"write_coils", "write_registers"}

\* the register a write of the call goes to, and the value it is given
WrittenRegister == IF request.op = "sync_rtc" THEN Clock ELSE request.register

\* C15: a write_register on a multi-word register (word count 2 or 3) hands
\* all of its words to the transport in a single write call starting at the
\* register's address; no write of the core carries only some of the words.
C15_WritesAllWordsAtOnce ==
  (phase = "done" /\ request.op \in {"write_register", "sync_rtc"})
    => /\ Cardinality(IndicesOf(IsWrite)) <= 1
       /\ \A w \in IndicesOf(IsWrite) :
            /\ trace[w].address = WrittenRegister.address
            /\ Len(trace[w].arg) = WrittenRegister.size
            /\ Encode(WrittenRegister, request.arg) = Ok(trace[w].arg)
       /\ (request.op = "write_register" /\ outcome.err = "none")
            => Cardinality(IndicesOf(IsWrite)) = 1

C15_Witness ==
  /\ Finished("write_register")
  /\ request.register = Register("Register", 36896, 100, 2)
  /\ request.arg = IntOf(300)
  /\ outcome.err = "none"
  /\ trace = <<TransportCall("write_registers", 36896, <<30000, 0>>)>>

\* the read of a catalog register the transport answered with data
AnsweredCatalogRead ==
  /\ Finished("read_register")
  /\ request.register \in Catalog
  /\ Len(replies) = 1
  /\ replies[1].kind =
       (IF request.register.type \in {"coil", "discrete"} THEN "bits" ELSE "registers")
  /\ Len(replies[1].data) >= 1

\* C18: for every register in the static catalog, when the transport
\* primitive selected by its classification returns a non-empty response,
\* read_register returns a RegisterValue whose value is present; the
\* DiscreteInput entries at 0x2000 and 0x200C decode the returned bit.
C18_CatalogReadsPresent ==
  AnsweredCatalogRead =>
    /\ outcome.err = "none"
    /\ outcome.ret.value # NoneV
    /\ request.register.address \in {8192, 8204}
         => outcome.ret.value = BoolV(replies[1].data[1])

\* a and b are the same modulo 2^(16n)
SameLowWords(a, b, n) == \A i \in 1..n : a.w[i] = b.w[i]

\* encode of an integer by a Plain register with multiplier 1
EncodedPlainInt ==
  /\ Finished("encode")
  /\ request.register.cls = "Register"
  /\ request.register.multiplier = 1
  /\ request.arg.t = "int"

\* C20: for every Plain register with multiplier 1 and every integer raw in
\* [-2^(16*word_count-1), 2^(16*word_count-1)), decode(encode(raw)) has raw
\* value raw and encode returns word_count words, each in [0, 0xFFFF]; an
\* integer outside that range is silently reduced modulo 2^(16*word_count).
C20_PlainIntRoundTrip ==
  EncodedPlainInt =>
    /\ outcome.err = "none"
    /\ Len(outcome.ret) = request.register.size
    /\ \A i \in 1..Len(outcome.ret) : outcome.ret[i] \in 0..65535
    /\ LET size == request.register.size
           back == Decode(request.register, RegistersReply(outcome.ret))
       IN /\ back.err = "none"
          /\ InSignedRange(back.ret.raw_value, size)
          /\ SameLowWords(back.ret.raw_value, request.arg, size)
          /\ InSignedRange(request.arg, size) <=> back.ret.raw_value = request.arg

C20_Witness ==
  /\ EncodedPlainInt
  /\ request.register.size = 2
  /\ ~InSignedRange(request.arg, 2)
  /\ request.arg.w = <<0, 32768, 0, 0>>
  /\ outcome = Ok(<<0, 32768>>)
  /\ Decode(request.register, RegistersReply(outcome.ret)).ret.raw_value
       = IntOf(-2147483647 - 1)


\* C16: at any time at most one request is outstanding on the serial
\* transport, across the three scheduled jobs and the MQTT network thread.
C16_OneOutstandingRequest == outstanding <= 1

\* a collection waits for the transport while the network thread runs the
\* command callback, in a pass in which the clock sync ran before it
C16_Witness ==
  /\ outstanding = 1
  /\ pc = "in_call"
  /\ running.job = "collect"
  /\ at > 1
  /\ mqtt = "on_mqtt_command_message"
  /\ next_run[2] = clock + DayPasses

\* C19: a job that raised during one pass leaves the scheduling loop running.
C19_LoopSurvivesFailedTick == failed => pc \notin {"finally", "stopped"}

====
